---- MODULE Spec2Model ----
(***************************************************************************)
(* Interaction state machine of the gesture-controlled ornament scene      *)
(* (src/App.tsx): application mode, focus target, delete confirmation,     *)
(* cooldown deadline, the mirror refs read by the gesture handler, and the *)
(* handlers that change them.                                              *)
(*                                                                         *)
(* Time is the wall clock Date.now() in milliseconds.  A handler runs to   *)
(* completion as one step (the page is single-threaded).  The handlers of  *)
(* pointer and form events (select, delete, close, upload) are React       *)
(* discrete events: their re-render is committed, and the effects of       *)
(* lines 84 and 87 run, before the next handler starts, so these steps     *)
(* leave the mirror refs equal to the state.  Gesture signals arrive from  *)
(* the capture pipeline outside any React event: their updates are         *)
(* batched, several signals can be handled before one re-render commits,   *)
(* and the refs are refreshed by the separate step RefreshRefs.            *)
(*                                                                         *)
(* The scene (src/components/MagicScene.tsx) and the hand controller       *)
(* (src/components/HandController.tsx) have specifications of their own:   *)
(* LayoutSpec for the layout generator and the photo items, EngineSpec for *)
(* the target each item is animated to, BlendSpec for the render ticks     *)
(* that move one mesh towards its target, ControllerSpec for the gesture   *)
(* classifier.  GallerySpec starts the application with the photo list     *)
(* near MAX_PHOTOS.  Spec itself follows no scene item and takes the       *)
(* signals as given.  Of a scene item the rotation seed, which no pose     *)
(* depends on, is left out.                                                *)
(***************************************************************************)
EXTENDS Integers, Sequences, FiniteSets, TLC

VARIABLES
    appState,           \* App.tsx:71   useState<AppState>
    gestureData,        \* App.tsx:72   the gesture signal held by the application
    photos,             \* App.tsx:79   ordered collection of photo URLs
    focusId,            \* App.tsx:80   focus target or NULL
    photosRef,          \* App.tsx:83   mirror of photos read by handleGesture
    focusIdRef,         \* App.tsx:86   mirror of focusId read by handleGesture
    wasPointingRef,     \* App.tsx:89   isPointing of the last processed signal
    deleteConfirm,      \* App.tsx:101  pending delete confirmation
    gestureCooldownRef, \* App.tsx:104  cooldown deadline (ms)
    timers,             \* App.tsx:240  due times of the pending setTimeout callbacks
    now,                \* Date.now()
    nextUrl,            \* number of object URLs created so far (URL.createObjectURL)
    delivered,          \* isPointing and handPosition of the signal onGesture got last
    last,               \* the handler that ran last and the state it started from
    items,              \* MagicScene.tsx:340  the non-photo items the model follows
    frame,              \* MagicScene.tsx:145  what the last useFrame callback aimed at
    mesh,               \* MagicScene.tsx:123  meshRef.current of the MagicItem the model follows
    results             \* HandController.tsx:81  the landmarks onResults got last

vars == <<appState, gestureData, photos, focusId, photosRef, focusIdRef,
          wasPointingRef, deleteConfirm, gestureCooldownRef, timers, now,
          nextUrl, delivered, last, items, frame, mesh, results>>

(* The state of the application component, of the scene and of the hand    *)
(* controller                                                              *)
appVars == <<appState, gestureData, photos, focusId, photosRef, focusIdRef,
             wasPointingRef, deleteConfirm, gestureCooldownRef, timers, now,
             nextUrl, delivered, last>>

sceneVars == <<items, frame, mesh>>

----------------------------------------------------------------------------
(* Bounds of the model *)

MaxUrls == 2
MaxFiles == 2
MaxTicks == 2
TickMs == 1500

(* The last clock value of the model *)
Horizon == MaxTicks * TickMs

(* Program constants *)

MAX_PHOTOS == 20
CLOSE_COOLDOWN_MS == 1000
DELETE_COOLDOWN_MS == 2000
CONFIRM_TIMEOUT_MS == 3000

TREE == "TREE"
SCATTER == "SCATTER"
INSPECT == "INSPECT"

AppStates == {TREE, SCATTER, INSPECT}

----------------------------------------------------------------------------
(* Focus ids.  An id is the string `photo-${i}`; it is kept as its two     *)
(* parts, the prefix before the dash and the number after it.              *)

NULL == [prefix |-> "null", index |-> 0]

(* Every photo named photo-0 *)
C23_PhotoIdIgnoresIndex(i) == [prefix |-> "photo", index |-> 0]

PhotoId(i) == [prefix |-> "photo", index |-> i]

StartsWithPhoto(id) == id.prefix = "photo"

ParseIndex(id) == id.index

(* The ids of the photo items the scene renders for a collection *)
PhotoIds(ps) == {PhotoId(i) : i \in 0 .. (Len(ps) - 1)}

----------------------------------------------------------------------------
(* Gesture signals *)

(* Hand positions in tenths of the normalised frame *)
CenterPosition == [x |-> 5, y |-> 5]

HandPosition == [x |-> 2, y |-> 7]

(* HandController.tsx:106, no hand detected *)
NoHandSignal == [isFist |-> FALSE, isOpen |-> FALSE, isPinching |-> FALSE,
                 isPointing |-> FALSE, handPosition |-> CenterPosition]

(* HandController.tsx:97-103, a classified hand; handleGesture accepts any  *)
(* combination of the four flags                                            *)
HandSignals == [isFist : BOOLEAN, isOpen : BOOLEAN, isPinching : BOOLEAN,
                isPointing : BOOLEAN, handPosition : {HandPosition}]

Signals == HandSignals \cup {NoHandSignal}

(* The part of a signal kept of the last call of onGesture *)
Delivery(data) ==
    [isPointing |-> data.isPointing, handPosition |-> data.handPosition]

----------------------------------------------------------------------------
(* Array.prototype.splice(index, 1) on a copy: removes the element at the  *)
(* 0-based index, or nothing when the index is past the end.               *)
C24_SpliceRemovesLast(ps, index) ==
    IF index < Len(ps)
    THEN [j \in 1 .. (Len(ps) - 1) |-> ps[j]]
    ELSE ps

Splice1(ps, index) ==
    IF index < Len(ps)
    THEN [j \in 1 .. (Len(ps) - 1) |-> IF j <= index THEN ps[j] ELSE ps[j + 1]]
    ELSE ps

(* What a handler leaves in last: its name, the mode, focus, confirmation  *)
(* and photos it started from, isPointing of the signal delivered before   *)
(* it ran, and the id it was called with (handlePhotoSelect only).  Steps  *)
(* that are no handler leave NoHandler.                                    *)
Snapshot(op) ==
    [op |-> op, appState |-> appState, focusId |-> focusId,
     deleteConfirm |-> deleteConfirm,
     deliveredPointing |-> delivered.isPointing,
     photos |-> photos, arg |-> NULL]

NoHandler ==
    [op |-> "none", appState |-> "TREE", focusId |-> NULL,
     deleteConfirm |-> FALSE, deliveredPointing |-> FALSE,
     photos |-> <<>>, arg |-> NULL]

----------------------------------------------------------------------------
(* Scene items, MagicScene.tsx.  Lengths, scales and Math.random() draws   *)
(* are kept in thousandths, angles in milliradians, positions as           *)
(* <<x, y, z>>.                                                            *)

TREE_HEIGHT == 16
TREE_RADIUS_BASE == 6
ORNAMENT_COUNT == 300
FOIL_COUNT == 200
RIBBON_PARTICLE_COUNT == 400
LIGHT_COUNT == 100
SCATTER_RADIUS_X == 45
SCATTER_RADIUS_Y == 25
SCATTER_RADIUS_Z == 20

(* Math.PI and Math.PI * (3 - Math.sqrt(5)), in milliradians *)
PI == 3142
GOLDEN_ANGLE == 2400

(* The items of each loop of the layout generator the model follows have   *)
(* index 0 .. MaxIndex                                                     *)
MaxIndex == 1

(* The values a call of Math.random() is given in the model: the least     *)
(* and the greatest value of [0, 1)                                        *)
Randoms == {0, 999}

(* Math.sin on [0, pi] by Bhaskara's quotient 16x(pi-x) / (5pi^2 - 4x(pi-x)) *)
SinHalf(x) ==
    LET p == x * (PI - x)
    IN (16 * p) \div ((5 * PI * PI - 4 * p) \div 1000)

Sin(a) ==
    LET x == a % (2 * PI)
    IN IF x <= PI THEN SinHalf(x) ELSE 0 - SinHalf(x - PI)

Cos(a) == Sin(a + PI \div 2)

(* new THREE.Vector3(r * Math.cos(theta), h, r * Math.sin(theta)) *)
Cylindrical(r, theta, h) ==
    <<(r * Cos(theta)) \div 1000, h, (r * Sin(theta)) \div 1000>>

(* (Math.random() - 0.5) * radius * factor, the factor given in tenths *)
Spread(draw, radius, factor10) == ((draw - 500) * radius * factor10) \div 10

(* (h_norm * layers) % 1 with layers = 5, for the index i of count items *)
LayerPhase(i, count) == ((i * 5000) \div count) % 1000

NonPhotoId(prefix, i) == [prefix |-> prefix, index |-> i]

(* 1. Standard ornaments, MagicScene.tsx:346-379 *)
OrnamentDraws ==
    [x : Randoms, y : Randoms, z : Randoms, type : Randoms, color : Randoms,
     scale : Randoms]

Ornament(i, d) ==
    LET h_norm == (i * 1000) \div ORNAMENT_COUNT
        h == h_norm * TREE_HEIGHT - (TREE_HEIGHT * 1000) \div 2
        baseRadius == (1000 - h_norm) * TREE_RADIUS_BASE
        layerKick == ((1000 - LayerPhase(i, ORNAMENT_COUNT)) * 15) \div 10
        r == baseRadius + layerKick
        theta == i * GOLDEN_ANGLE
        colors == <<"RED", "GREEN", "METALLIC_GOLD", "SILVER">>
    IN [id |-> NonPhotoId("ornament", i),
        type |-> IF d.type > 600 THEN "box" ELSE "sphere",
        treePos |-> Cylindrical(r, theta, h),
        scatterPos |-> <<Spread(d.x, SCATTER_RADIUS_X, 20),
                         Spread(d.y, SCATTER_RADIUS_Y, 20),
                         Spread(d.z, SCATTER_RADIUS_Z, 20)>>,
        color |-> colors[(d.color * 4) \div 1000 + 1],
        scale |-> (d.scale * 6) \div 10 + 300,
        textureUrl |-> 0]

(* 2. Gold and silver foil flakes, MagicScene.tsx:382-404 *)
FoilDraws ==
    [h : Randoms, r : Randoms, x : Randoms, y : Randoms, z : Randoms,
     color : Randoms, scale : Randoms]

Foil(i, d) ==
    LET h_norm == (i * 1000) \div FOIL_COUNT
        h == h_norm * TREE_HEIGHT - (TREE_HEIGHT * 1000) \div 2
                 + (d.h * 2 - 1000)
        baseRadius == (1000 - h_norm) * TREE_RADIUS_BASE
        r == baseRadius + (d.r * 15) \div 10 + 500
        theta == i * GOLDEN_ANGLE * 2
    IN [id |-> NonPhotoId("foil", i),
        type |-> "box",
        treePos |-> Cylindrical(r, theta, h),
        scatterPos |-> <<Spread(d.x, SCATTER_RADIUS_X, 22),
                         Spread(d.y, SCATTER_RADIUS_Y, 22),
                         Spread(d.z, SCATTER_RADIUS_Z, 15)>>,
        color |-> IF d.color > 400 THEN "METALLIC_GOLD" ELSE "SILVER",
        scale |-> (d.scale * 4) \div 10 + 200,
        textureUrl |-> 0]

(* 3. and 4. The two ribbons, MagicScene.tsx:407-469: braid is 1 for the   *)
(* white ribbon and -1 for the blue one, offset the radius offset          *)
ScatterDraws == [x : Randoms, y : Randoms, z : Randoms]

Ribbon(prefix, braid, offset, color, scale, i, d) ==
    LET t == (i * 1000) \div RIBBON_PARTICLE_COUNT
        h == (i * TREE_HEIGHT * 1000) \div RIBBON_PARTICLE_COUNT
                 - (TREE_HEIGHT * 1000) \div 2
        baseRadius == (1000 - t) * TREE_RADIUS_BASE
        layerKick == ((1000 - LayerPhase(i, RIBBON_PARTICLE_COUNT)) * 18) \div 10
        r == baseRadius + layerKick + offset
        baseTheta == (i * 2 * PI * 5) \div RIBBON_PARTICLE_COUNT
        weave == (Sin((i * 30000) \div RIBBON_PARTICLE_COUNT) * 4) \div 10
        theta == baseTheta + braid * weave
    IN [id |-> NonPhotoId(prefix, i),
        type |-> "box",
        treePos |-> Cylindrical(r, theta, h),
        scatterPos |-> <<Spread(d.x, SCATTER_RADIUS_X, 25),
                         Spread(d.y, SCATTER_RADIUS_Y, 20),
                         Spread(d.z, SCATTER_RADIUS_Z, 10)>>,
        color |-> color,
        scale |-> scale,
        textureUrl |-> 0]

RibbonWhite(i, d) == Ribbon("ribbon-white", 1, 1300, "WHITE", 280, i, d)

RibbonBlue(i, d) == Ribbon("ribbon-blue", 0 - 1, 500, "DEEP_BLUE", 300, i, d)

(* 5. Light strip, MagicScene.tsx:472-499 *)
Light(i, d) ==
    LET t == (i * 1000) \div LIGHT_COUNT
        h == (i * TREE_HEIGHT * 1000) \div LIGHT_COUNT
                 - (TREE_HEIGHT * 1000) \div 2
        baseRadius == (1000 - t) * TREE_RADIUS_BASE
        layerKick == ((1000 - LayerPhase(i, LIGHT_COUNT)) * 16) \div 10
        r == baseRadius + layerKick + 200
        theta == (i * 2 * PI * 4) \div LIGHT_COUNT + PI
    IN [id |-> NonPhotoId("light", i),
        type |-> "sphere",
        treePos |-> Cylindrical(r, theta, h),
        scatterPos |-> <<Spread(d.x, SCATTER_RADIUS_X, 20),
                         Spread(d.y, SCATTER_RADIUS_Y, 20),
                         Spread(d.z, SCATTER_RADIUS_Z, 10)>>,
        color |-> "LIGHT_WARM",
        scale |-> 200,
        textureUrl |-> 0]

(* The items one run of the generator can produce at the place of `it` *)
Regenerated(it) ==
    LET i == it.id.index
    IN CASE it.id.prefix = "ornament" -> {Ornament(i, d) : d \in OrnamentDraws}
         [] it.id.prefix = "foil" -> {Foil(i, d) : d \in FoilDraws}
         [] it.id.prefix = "ribbon-white" -> {RibbonWhite(i, d) : d \in ScatterDraws}
         [] it.id.prefix = "ribbon-blue" -> {RibbonBlue(i, d) : d \in ScatterDraws}
         [] OTHER -> {Light(i, d) : d \in ScatterDraws}

(* photoItems of allItems, MagicScene.tsx:508-532.  jitter[j] is the draw  *)
(* of Math.random() for the j-th photo.                                    *)
Jitters(ps) == [1 .. Len(ps) -> Randoms]

PhotoItem(ps, i, draw) ==
    LET length == IF Len(ps) = 0 THEN 1 ELSE Len(ps)
        h == (i * TREE_HEIGHT * 800) \div length
                 - (TREE_HEIGHT * 1000) \div 3
        r == (1000 - ((h + (TREE_HEIGHT * 1000) \div 2) \div TREE_HEIGHT))
                 * (TREE_RADIUS_BASE + 2)
        theta == i * ((2 * PI) \div length) + 1000
        scatterRadius == 12
        scatterAngle == (i * 2 * PI) \div length
    IN [id |-> PhotoId(i),
        type |-> "photo",
        treePos |-> Cylindrical(r, theta, h),
        scatterPos |-> <<Cos(scatterAngle) * scatterRadius,
                         (draw - 500) * 16,
                         Sin(scatterAngle) * scatterRadius>>,
        color |-> "CREAM",
        scale |-> 1000,
        textureUrl |-> ps[i + 1]]

PhotoItems(ps, jitter) == [j \in 1 .. Len(ps) |-> PhotoItem(ps, j - 1, jitter[j])]

C17_AllItemsPhotosReplaceItems(jitter) ==
    IF Len(photos) > 0 THEN PhotoItems(photos, jitter) ELSE items

(* allItems, MagicScene.tsx:507-535: [...items, ...photoItems].  The memo  *)
(* is recomputed when photos changes, with fresh draws for every photo.    *)
AllItems(jitter) == items \o PhotoItems(photos, jitter)

(* The target position MagicItem's useFrame callback lerps to,             *)
(* MagicScene.tsx:148-170                                                  *)
C18_TargetPosAnyFocus(item, targetMode, focus) ==
    IF targetMode = SCATTER
    THEN item.scatterPos
    ELSE IF targetMode = INSPECT
    THEN IF item.type = "photo"
         THEN IF focus # NULL
              THEN <<0, 0, 15000>>
              ELSE <<(item.scatterPos[1] * 12) \div 10,
                     (item.scatterPos[2] * 12) \div 10,
                     (item.scatterPos[3] * 12) \div 10 - 10000>>
         ELSE item.scatterPos
    ELSE item.treePos

TargetPos(item, targetMode, focus) ==
    IF targetMode = SCATTER
    THEN item.scatterPos
    ELSE IF targetMode = INSPECT
    THEN IF item.type = "photo"
         THEN IF focus = item.id
              THEN <<0, 0, 15000>>
              ELSE <<(item.scatterPos[1] * 12) \div 10,
                     (item.scatterPos[2] * 12) \div 10,
                     (item.scatterPos[3] * 12) \div 10 - 10000>>
         ELSE item.scatterPos
    ELSE item.treePos

(* The scale the callback lerps to, MagicScene.tsx:173-181 *)
TargetScale(item, targetMode, focus) ==
    IF item.type = "photo"
    THEN IF targetMode = INSPECT /\ item.id = focus THEN 2000 ELSE 1000
    ELSE item.scale

(* frame before any useFrame callback has run *)
NoItem ==
    [id |-> NULL, type |-> "none", treePos |-> <<0, 0, 0>>,
     scatterPos |-> <<0, 0, 0>>, color |-> "none", scale |-> 0,
     textureUrl |-> 0]

NoFrame == [item |-> NoItem, targetPos |-> <<0, 0, 0>>, targetScale |-> 0]

(* mesh while the model follows no MagicItem *)
NoMesh == [item |-> NoItem, position |-> <<0, 0, 0>>, scale |-> 0, ticks |-> 0]

(* The render ticks the model follows a mesh for *)
MaxFrames == 2

(* The elapsed time of a render tick in ms: a 60 Hz frame, and two frames  *)
(* after the page was in the background                                    *)
Deltas == {16, 400, 1000}

(* The values of time + randomOffset and of time * 0.5 + randomOffset, in  *)
(* milliradians                                                            *)
Phases == {0, 1571}

(* THREE.Vector3.lerp(v, alpha): this += (v - this) * alpha, alpha in       *)
(* thousandths                                                             *)
Lerp(this, v, alpha) ==
    [c \in 1 .. 3 |-> this[c] + ((v[c] - this[c]) * alpha) \div 1000]

(* The noise of MagicScene.tsx:184-187, added in SCATTER mode *)
Noise(pos, targetMode, phaseY, phaseX) ==
    IF targetMode = SCATTER
    THEN <<pos[1] + (Cos(phaseX) * 20) \div 1000,
           pos[2] + (Sin(phaseY) * 20) \div 1000,
           pos[3]>>
    ELSE pos

(* results before any call of onResults *)
NoResults == [hand |-> FALSE]

(* Landmark frames, HandController.tsx.  Coordinates are fifths of the     *)
(* normalised image; y grows downwards.                                    *)
MaxCoord == 2

Coordinates == 0 .. MaxCoord

(* Fingertips 8, 12, 16, 20; each has its PIP joint two places before *)
FingerTips == {8, 12, 16, 20}

Wrist == [x |-> 4, y |-> 4]

MiddleBase == [x |-> 4, y |-> 3]

PipJoint == [x |-> 2, y |-> 1]

(* results.multiHandLandmarks[0] for the y of the thumb tip (4) and of the *)
(* four fingertips: a tip is above, level with or below its PIP joint, and *)
(* all tips have the x of the joints                                       *)
Landmarks(ys) ==
    [k \in {0, 9} \cup DOMAIN ys \cup {tip - 2 : tip \in FingerTips} |->
        IF k = 0 THEN Wrist
        ELSE IF k = 9 THEN MiddleBase
        ELSE IF k \in DOMAIN ys THEN [x |-> PipJoint.x, y |-> ys[k]]
        ELSE PipJoint]

Hands ==
    {[hand |-> TRUE, lm |-> Landmarks(ys)] :
        ys \in [{4} \cup FingerTips -> Coordinates]}

(* detectFist, HandController.tsx:112-120 *)
DetectFist(lm) == \A tipIdx \in FingerTips : lm[tipIdx].y > lm[tipIdx - 2].y

C19_DetectOpenPalmNotFist(lm) == ~DetectFist(lm)

(* detectOpenPalm, HandController.tsx:122-128 *)
DetectOpenPalm(lm) == \A tipIdx \in FingerTips : lm[tipIdx].y < lm[tipIdx - 2].y

(* detectPinch, HandController.tsx:130-136: dist < 0.05, squared, with dx   *)
(* and dy in fifths                                                        *)
DetectPinch(lm) ==
    LET dx == lm[8].x - lm[4].x
        dy == lm[8].y - lm[4].y
    IN (dx * dx + dy * dy) * 400 < 25

(* detectPointing, HandController.tsx:138-148 *)
DetectPointing(lm) ==
    /\ lm[8].y < lm[6].y
    /\ lm[12].y > lm[10].y
    /\ lm[16].y > lm[14].y
    /\ lm[20].y > lm[18].y

(* The signal onResults hands to onGesture, HandController.tsx:81-108; the *)
(* hand position in tenths                                                 *)
Classify(res) ==
    IF res.hand
    THEN [isFist |-> DetectFist(res.lm),
          isOpen |-> DetectOpenPalm(res.lm),
          isPinching |-> DetectPinch(res.lm),
          isPointing |-> DetectPointing(res.lm),
          handPosition |-> [x |-> 10 - (res.lm[0].x + res.lm[9].x),
                            y |-> res.lm[0].y + res.lm[9].y]]
    ELSE NoHandSignal

----------------------------------------------------------------------------
Init ==
    /\ appState = TREE
    /\ gestureData = NoHandSignal
    /\ photos = <<>>
    /\ focusId = NULL
    /\ photosRef = <<>>
    /\ focusIdRef = NULL
    /\ wasPointingRef = FALSE
    /\ deleteConfirm = FALSE
    /\ gestureCooldownRef = 0
    /\ timers = {}
    /\ now = 0
    /\ nextUrl = 0
    /\ delivered = Delivery(NoHandSignal)
    /\ last = NoHandler
    /\ items = <<>>
    /\ frame = NoFrame
    /\ mesh = NoMesh
    /\ results = NoResults

----------------------------------------------------------------------------
(* The state updater of handleGesture, App.tsx:155-193.  Each rule yields  *)
(* the outcomes it can have: the mode it returns and the focus and         *)
(* confirmation it leaves behind (the setFocusId / setDeleteConfirm calls  *)
(* it makes, or none).  Only rule 2 has more than one outcome, one for     *)
(* every value of Math.floor(Math.random() * photosRef.current.length).    *)

Outcome(mode, focus, confirm) ==
    [appState |-> mode, focusId |-> focus, deleteConfirm |-> confirm]

(* 1. Reset to Tree on Fist *)
C1_FistRuleKeepsConfirm ==
    {Outcome(TREE, NULL, deleteConfirm)}

FistRule ==
    {Outcome(TREE, NULL, FALSE)}

(* 2. Pointing -> select a random photo and inspect *)
C27_PointRulePastEnd(prev, isFreshPoint) ==
    IF prev # INSPECT \/ isFreshPoint
    THEN {Outcome(INSPECT, PhotoId(randomIdx), FALSE) :
             randomIdx \in 0 .. Len(photosRef)}
    ELSE {Outcome(INSPECT, focusId, deleteConfirm)}

C28_PointRuleReselects(prev, isFreshPoint) ==
    {Outcome(INSPECT, PhotoId(randomIdx),
             IF prev # INSPECT \/ isFreshPoint THEN FALSE ELSE deleteConfirm) :
        randomIdx \in 0 .. (Len(photosRef) - 1)}

PointRule(prev, isFreshPoint) ==
    IF prev # INSPECT \/ isFreshPoint
    THEN {Outcome(INSPECT, PhotoId(randomIdx), FALSE) :
             randomIdx \in 0 .. (Len(photosRef) - 1)}
    ELSE {Outcome(INSPECT, focusId, deleteConfirm)}

(* 3. Open hand -> scatter *)
C5_OpenRuleKeepsFocus(prev) ==
    {Outcome(SCATTER, focusId, IF prev = INSPECT THEN FALSE ELSE deleteConfirm)}

C10_OpenRuleKeepsConfirm(prev) ==
    IF prev = INSPECT
    THEN {Outcome(SCATTER, NULL, deleteConfirm)}
    ELSE {Outcome(SCATTER, focusId, deleteConfirm)}

OpenRule(prev) ==
    IF prev = INSPECT
    THEN {Outcome(SCATTER, NULL, FALSE)}
    ELSE {Outcome(SCATTER, focusId, deleteConfirm)}

(* 4. Pinch -> fallback inspect *)
PinchRule ==
    IF focusIdRef = NULL
    THEN {Outcome(INSPECT, PhotoId(0), FALSE)}
    ELSE {Outcome(INSPECT, focusId, deleteConfirm)}

C2_UpdaterOpenFirst(prev, data, isFreshPoint) ==
    IF data.isFist
    THEN FistRule
    ELSE IF data.isOpen
    THEN OpenRule(prev)
    ELSE IF data.isPointing /\ Len(photosRef) > 0
    THEN PointRule(prev, isFreshPoint)
    ELSE IF prev = SCATTER /\ data.isPinching /\ Len(photosRef) > 0
    THEN PinchRule
    ELSE {Outcome(prev, focusId, deleteConfirm)}

C12_UpdaterFallthroughClearsConfirm(prev, data, isFreshPoint) ==
    IF data.isFist
    THEN FistRule
    ELSE IF data.isPointing /\ Len(photosRef) > 0
    THEN PointRule(prev, isFreshPoint)
    ELSE IF data.isOpen
    THEN OpenRule(prev)
    ELSE IF prev = SCATTER /\ data.isPinching /\ Len(photosRef) > 0
    THEN PinchRule
    ELSE {Outcome(prev, focusId, FALSE)}

C13_UpdaterPinchWithoutPhotos(prev, data, isFreshPoint) ==
    IF data.isFist
    THEN FistRule
    ELSE IF data.isPointing /\ Len(photosRef) > 0
    THEN PointRule(prev, isFreshPoint)
    ELSE IF data.isOpen
    THEN OpenRule(prev)
    ELSE IF prev = SCATTER /\ data.isPinching
    THEN PinchRule
    ELSE {Outcome(prev, focusId, deleteConfirm)}

Updater(prev, data, isFreshPoint) ==
    IF data.isFist
    THEN FistRule
    ELSE IF data.isPointing /\ Len(photosRef) > 0
    THEN PointRule(prev, isFreshPoint)
    ELSE IF data.isOpen
    THEN OpenRule(prev)
    ELSE IF prev = SCATTER /\ data.isPinching /\ Len(photosRef) > 0
    THEN PinchRule
    ELSE {Outcome(prev, focusId, deleteConfirm)}

C3_CooldownNeverActive(t) == FALSE

(* Date.now() < gestureCooldownRef.current *)
CooldownActive(t) == t < gestureCooldownRef

(* The deadline a close or delete click stores *)
CloseDeadline(t) == t + CLOSE_COOLDOWN_MS

C30_DeleteDeadlineLate(t) == t + DELETE_COOLDOWN_MS + CLOSE_COOLDOWN_MS

DeleteDeadline(t) == t + DELETE_COOLDOWN_MS

----------------------------------------------------------------------------
(* handleGesture, App.tsx:145-194, called by HandController.onResults for  *)
(* every frame of the capture pipeline.                                    *)
HandleGesture(data) ==
    /\ delivered' = Delivery(data)
    /\ last' = Snapshot("gesture")
    /\ IF CooldownActive(now)
       THEN UNCHANGED <<appState, gestureData, focusId, wasPointingRef,
                        deleteConfirm>>
       ELSE LET isFreshPoint == data.isPointing /\ ~wasPointingRef
            IN \E out \in Updater(appState, data, isFreshPoint) :
                 /\ gestureData' = data
                 /\ wasPointingRef' = data.isPointing
                 /\ appState' = out.appState
                 /\ focusId' = out.focusId
                 /\ deleteConfirm' = out.deleteConfirm
    /\ UNCHANGED <<photos, photosRef, focusIdRef, gestureCooldownRef, timers,
                   now, nextUrl>>
    /\ UNCHANGED sceneVars

(* The effects of App.tsx:84 and App.tsx:87, run after a re-render commits *)
RefreshRefs ==
    /\ photosRef # photos \/ focusIdRef # focusId
    /\ photosRef' = photos
    /\ focusIdRef' = focusId
    /\ last' = NoHandler
    /\ UNCHANGED <<appState, gestureData, photos, focusId, wasPointingRef,
                   deleteConfirm, gestureCooldownRef, timers, now, nextUrl,
                   delivered>>
    /\ UNCHANGED <<sceneVars, results>>

(* What handleFileUpload leaves in last.arg: the number of files chosen *)
FileCount(n) == [prefix |-> "files", index |-> n]

(* handleFileUpload without the slice to the remaining slots *)
C26_UploadTakesEveryFile(n) ==
    LET remainingSlots == MAX_PHOTOS - Len(photos)
        count == n
        newPhotos == [j \in 1 .. count |-> nextUrl + j]
    IN /\ IF remainingSlots <= 0
          THEN UNCHANGED <<photos, nextUrl>>
          ELSE /\ nextUrl + count <= MaxUrls
               /\ photos' = photos \o newPhotos
               /\ nextUrl' = nextUrl + count
       /\ photosRef' = photos'
       /\ focusIdRef' = focusId
       /\ last' = [Snapshot("upload") EXCEPT !.arg = FileCount(n)]
       /\ UNCHANGED <<appState, gestureData, focusId, wasPointingRef,
                      deleteConfirm, gestureCooldownRef, timers, now,
                      delivered>>
       /\ UNCHANGED <<sceneVars, results>>

(* handleFileUpload, App.tsx:196-213, with n files chosen *)
HandleFileUpload(n) ==
    LET remainingSlots == MAX_PHOTOS - Len(photos)
        count == IF n > remainingSlots THEN remainingSlots ELSE n
        newPhotos == [j \in 1 .. count |-> nextUrl + j]
    IN /\ IF remainingSlots <= 0
          THEN UNCHANGED <<photos, nextUrl>>
          ELSE /\ nextUrl + count <= MaxUrls
               /\ photos' = photos \o newPhotos
               /\ nextUrl' = nextUrl + count
       /\ photosRef' = photos'
       /\ focusIdRef' = focusId
       /\ last' = [Snapshot("upload") EXCEPT !.arg = FileCount(n)]
       /\ UNCHANGED <<appState, gestureData, focusId, wasPointingRef,
                      deleteConfirm, gestureCooldownRef, timers, now,
                      delivered>>
       /\ UNCHANGED <<sceneVars, results>>

(* handlePhotoSelect, App.tsx:230-234, called by MagicItem.handlePointerDown *)
(* with the id of a rendered photo item                                     *)
C14_SelectHonoursCooldown(id) ==
    /\ id \in PhotoIds(photos)
    /\ IF CooldownActive(now)
       THEN UNCHANGED <<focusId, deleteConfirm, appState>>
       ELSE /\ focusId' = id
            /\ deleteConfirm' = FALSE
            /\ appState' = INSPECT
    /\ focusIdRef' = focusId'
    /\ photosRef' = photos
    /\ last' = [Snapshot("select") EXCEPT !.arg = id]
    /\ UNCHANGED <<gestureData, photos, wasPointingRef, gestureCooldownRef,
                   timers, now, nextUrl, delivered>>
    /\ UNCHANGED <<sceneVars, results>>

HandlePhotoSelect(id) ==
    /\ id \in PhotoIds(photos)
    /\ focusId' = id
    /\ deleteConfirm' = FALSE
    /\ appState' = INSPECT
    /\ focusIdRef' = id
    /\ photosRef' = photos
    /\ last' = [Snapshot("select") EXCEPT !.arg = id]
    /\ UNCHANGED <<gestureData, photos, wasPointingRef, gestureCooldownRef,
                   timers, now, nextUrl, delivered>>
    /\ UNCHANGED <<sceneVars, results>>

(* setTimeout(..., 3000), App.tsx:240: the due time of the callback.  The  *)
(* handle is not stored and the timer is never cancelled.  A callback due  *)
(* after the last clock value is never seen to run; all such callbacks are *)
(* kept under one due time past the horizon.                               *)
ConfirmTimer(t) ==
    IF t + CONFIRM_TIMEOUT_MS <= Horizon
    THEN {t + CONFIRM_TIMEOUT_MS}
    ELSE {Horizon + CONFIRM_TIMEOUT_MS}

(* The delete and close buttons are rendered only while inspecting a photo, *)
(* App.tsx:372                                                              *)
ControlsVisible ==
    appState = INSPECT /\ focusId # NULL /\ StartsWithPhoto(focusId)

(* handleDeleteClick, App.tsx:236-258 *)
HandleDeleteClick ==
    /\ ControlsVisible
    /\ IF ~deleteConfirm
       THEN /\ deleteConfirm' = TRUE
            /\ timers' = timers \cup ConfirmTimer(now)
            /\ last' = Snapshot("delete-ask")
            /\ UNCHANGED <<photos, focusId, appState, gestureCooldownRef>>
       ELSE IF focusId # NULL /\ StartsWithPhoto(focusId)
       THEN /\ photos' = Splice1(photos, ParseIndex(focusId))
            /\ focusId' = NULL
            /\ deleteConfirm' = FALSE
            /\ appState' = SCATTER
            /\ gestureCooldownRef' = DeleteDeadline(now)
            /\ last' = Snapshot("delete-confirm")
            /\ UNCHANGED timers
       ELSE /\ last' = Snapshot("delete-confirm")
            /\ UNCHANGED <<photos, focusId, deleteConfirm, appState,
                           gestureCooldownRef, timers>>
    /\ photosRef' = photos'
    /\ focusIdRef' = focusId'
    /\ UNCHANGED <<gestureData, wasPointingRef, now, nextUrl, delivered>>
    /\ UNCHANGED <<sceneVars, results>>

(* handleCloseInspect, App.tsx:260-265 *)
HandleCloseInspect ==
    /\ ControlsVisible
    /\ focusId' = NULL
    /\ appState' = SCATTER
    /\ deleteConfirm' = FALSE
    /\ gestureCooldownRef' = CloseDeadline(now)
    /\ focusIdRef' = NULL
    /\ photosRef' = photos
    /\ last' = Snapshot("close")
    /\ UNCHANGED <<gestureData, photos, wasPointingRef, timers, now, nextUrl,
                   delivered>>
    /\ UNCHANGED <<sceneVars, results>>

(* The callback of setTimeout(() => setDeleteConfirm(false), 3000),         *)
(* App.tsx:240, run once its delay has elapsed                              *)
ConfirmTimeout(due) ==
    /\ due \in timers
    /\ due <= now
    /\ timers' = timers \ {due}
    /\ deleteConfirm' = FALSE
    /\ last' = NoHandler
    /\ UNCHANGED <<appState, gestureData, photos, focusId, photosRef,
                   focusIdRef, wasPointingRef, gestureCooldownRef, now,
                   nextUrl, delivered>>
    /\ UNCHANGED <<sceneVars, results>>

(* The wall clock advances.  Pending effects and due timer callbacks run    *)
(* within one tick of the clock.                                            *)
Tick ==
    /\ now < Horizon
    /\ photosRef = photos
    /\ focusIdRef = focusId
    /\ \A due \in timers : due > now
    /\ now' = now + TickMs
    /\ last' = NoHandler
    /\ UNCHANGED <<appState, gestureData, photos, focusId, photosRef,
                   focusIdRef, wasPointingRef, deleteConfirm,
                   gestureCooldownRef, timers, nextUrl, delivered>>
    /\ UNCHANGED <<sceneVars, results>>

Next ==
    \/ \E data \in Signals : HandleGesture(data) /\ UNCHANGED results
    \/ RefreshRefs
    \/ \E n \in 1 .. MaxFiles : HandleFileUpload(n)
    \/ \E id \in PhotoIds(photos) : HandlePhotoSelect(id)
    \/ HandleDeleteClick
    \/ HandleCloseInspect
    \/ \E due \in timers : ConfirmTimeout(due)
    \/ Tick

Spec == Init /\ [][Next]_vars

----------------------------------------------------------------------------
(* The gallery near its limit: the app after earlier uploads filled all    *)
(* but a few of the MAX_PHOTOS slots.  The object URLs of those uploads    *)
(* are the negative numbers, distinct from every URL created later.        *)
Gallery(length) == [j \in 1 .. length |-> 0 - j]

GalleryInit ==
    /\ \E length \in (MAX_PHOTOS - MaxFiles) .. MAX_PHOTOS :
          /\ photos = Gallery(length)
          /\ photosRef = Gallery(length)
    /\ appState = TREE
    /\ gestureData = NoHandSignal
    /\ focusId = NULL
    /\ focusIdRef = NULL
    /\ wasPointingRef = FALSE
    /\ deleteConfirm = FALSE
    /\ gestureCooldownRef = 0
    /\ timers = {}
    /\ now = 0
    /\ nextUrl = 0
    /\ delivered = Delivery(NoHandSignal)
    /\ last = NoHandler
    /\ items = <<>>
    /\ frame = NoFrame
    /\ mesh = NoMesh
    /\ results = NoResults

(* Uploads, and the clicks that free a slot again: the first or the last   *)
(* photo is selected, deleted in two clicks or closed.                     *)
GalleryNext ==
    \/ \E n \in 1 .. MaxFiles : HandleFileUpload(n)
    \/ \E id \in PhotoIds(photos) :
          /\ id.index \in {0, Len(photos) - 1}
          /\ HandlePhotoSelect(id)
    \/ HandleDeleteClick
    \/ HandleCloseInspect

GallerySpec == GalleryInit /\ [][GalleryNext]_vars

----------------------------------------------------------------------------
(* The layout generator and the photo collection.  The scene is mounted    *)
(* once: the callback of the items memo, MagicScene.tsx:340-505, runs and  *)
(* its result is kept for the life of the page.  The model follows one of  *)
(* the items it pushes.                                                    *)
GenerateItems(it) ==
    /\ items = <<>>
    /\ items' = <<it>>
    /\ UNCHANGED <<appVars, frame, mesh, results>>

LayoutNext ==
    \/ \E i \in 0 .. MaxIndex, d \in OrnamentDraws : GenerateItems(Ornament(i, d))
    \/ \E i \in 0 .. MaxIndex, d \in FoilDraws : GenerateItems(Foil(i, d))
    \/ \E i \in 0 .. MaxIndex, d \in ScatterDraws : GenerateItems(RibbonWhite(i, d))
    \/ \E i \in 0 .. MaxIndex, d \in ScatterDraws : GenerateItems(RibbonBlue(i, d))
    \/ \E i \in 0 .. MaxIndex, d \in ScatterDraws : GenerateItems(Light(i, d))
    \/ items # <<>> /\ \E n \in 1 .. MaxFiles : HandleFileUpload(n)
    \/ items # <<>> /\ \E id \in PhotoIds(photos) : HandlePhotoSelect(id)
    \/ items # <<>> /\ HandleDeleteClick

LayoutSpec == Init /\ [][LayoutNext]_vars

----------------------------------------------------------------------------
(* The animation engine.  MagicScene is rendered with a mode, a photo      *)
(* collection and a focus id as props; each MagicItem's useFrame callback  *)
(* runs once per render tick.                                              *)

(* One item of each loop of the generator, all draws 0 *)
EngineItems ==
    LET zero == [x |-> 0, y |-> 0, z |-> 0, type |-> 0, color |-> 0,
                 scale |-> 0, h |-> 0, r |-> 0]
    IN {Ornament(0, zero), Foil(0, zero), RibbonWhite(0, zero),
        RibbonBlue(0, zero), Light(0, zero)}

(* The focus ids the scene is given: none, a photo id that may or may not  *)
(* be the id of a photo item, the id of a non-photo item                   *)
FocusInputs ==
    {NULL, NonPhotoId("ornament", 0)} \cup {PhotoId(i) : i \in 0 .. MaxUrls}

EngineInit ==
    /\ appState \in AppStates
    /\ gestureData = NoHandSignal
    /\ photos \in {[j \in 1 .. n |-> j] : n \in 0 .. MaxUrls}
    /\ focusId \in FocusInputs
    /\ photosRef = photos
    /\ focusIdRef = focusId
    /\ wasPointingRef = FALSE
    /\ deleteConfirm = FALSE
    /\ gestureCooldownRef = 0
    /\ timers = {}
    /\ now = 0
    /\ nextUrl = Len(photos)
    /\ delivered = Delivery(NoHandSignal)
    /\ last = NoHandler
    /\ items \in {<<it>> : it \in EngineItems}
    /\ frame = NoFrame
    /\ mesh = NoMesh
    /\ results = NoResults

(* The part of MagicItem's useFrame callback that picks the target,        *)
(* MagicScene.tsx:145-181                                                  *)
UseFrame(item) ==
    /\ frame' = [item |-> item,
                 targetPos |-> TargetPos(item, appState, focusId),
                 targetScale |-> TargetScale(item, appState, focusId)]
    /\ UNCHANGED <<appVars, items, results>>

EngineNext ==
    \E jitter \in Jitters(photos) :
        \E k \in 1 .. Len(AllItems(jitter)) :
            UseFrame(AllItems(jitter)[k]) /\ UNCHANGED mesh

EngineSpec == EngineInit /\ [][EngineNext]_vars

----------------------------------------------------------------------------
(* The live transform of one MagicItem.  Its group or mesh is created at   *)
(* the origin with scale 1; every render tick its useFrame callback moves  *)
(* the position and the scale towards their targets.  The rotation and the *)
(* emissive intensity, which no position depends on, are left out.         *)
MountItem(item) ==
    /\ mesh = NoMesh
    /\ mesh' = [item |-> item, position |-> <<0, 0, 0>>, scale |-> 1000,
                ticks |-> 0]
    /\ UNCHANGED <<appVars, items, frame, results>>

(* MagicItem's useFrame callback, MagicScene.tsx:145-187, for a tick of    *)
(* delta ms                                                                *)
RenderTick(delta, phaseY, phaseX) ==
    /\ mesh # NoMesh
    /\ mesh.ticks < MaxFrames
    /\ UseFrame(mesh.item)
    /\ mesh' = [mesh EXCEPT
          !.position = Noise(Lerp(mesh.position,
                                  TargetPos(mesh.item, appState, focusId),
                                  delta * 3),
                             appState, phaseY, phaseX),
          !.scale = mesh.scale
                      + ((TargetScale(mesh.item, appState, focusId) - mesh.scale)
                           * (IF mesh.item.type = "photo" THEN delta * 3
                                                          ELSE delta * 4))
                        \div 1000,
          !.ticks = mesh.ticks + 1]

BlendNext ==
    \/ \E jitter \in Jitters(photos) :
          \E k \in 1 .. Len(AllItems(jitter)) : MountItem(AllItems(jitter)[k])
    \/ \E delta \in Deltas, phaseY \in Phases, phaseX \in Phases :
          RenderTick(delta, phaseY, phaseX)

BlendSpec == EngineInit /\ [][BlendNext]_vars

----------------------------------------------------------------------------
(* The hand controller.  onResults, HandController.tsx:81-108, classifies  *)
(* the landmarks of a video frame and hands the signal to handleGesture.   *)
OnResults(res) ==
    /\ results' = res
    /\ HandleGesture(Classify(res))

ControllerNext == \E res \in Hands \cup {NoResults} : OnResults(res)

ControllerSpec == Init /\ [][ControllerNext]_vars

----------------------------------------------------------------------------
(* Properties *)

(* The last step was handleGesture and the signal passed the cooldown      *)
(* check: Date.now() was not before the deadline.  A gesture step changes  *)
(* neither the clock nor the deadline nor the photos.                      *)
Processed == last.op = "gesture" /\ now >= gestureCooldownRef

(* The last step was handleGesture and the signal came before the deadline *)
Suppressed == last.op = "gesture" /\ now < gestureCooldownRef

(* C1: a processed signal with isFist = true leaves mode = TREE, focus =   *)
(* null and no pending delete confirmation, whatever the prior state and   *)
(* the other flags.                                                        *)
C1_FistResets ==
    (Processed /\ gestureData.isFist)
        => (appState = TREE /\ focusId = NULL /\ ~deleteConfirm)

C1_Witness ==
    /\ Processed
    /\ gestureData.isFist /\ gestureData.isPointing /\ gestureData.isOpen
    /\ Len(photos) > 0
    /\ last.appState = INSPECT /\ last.focusId # NULL /\ last.deleteConfirm
    /\ appState = TREE /\ focusId = NULL /\ ~deleteConfirm

(* C2: the rules are applied in the order fist > pointing (with a photo) > *)
(* open > pinch fallback, first match wins: the mode and focus after a     *)
(* processed signal are those of the first applicable rule alone.          *)
C2_Priority ==
    Processed =>
        LET d == gestureData
            canPoint == d.isPointing /\ Len(photos) > 0
        IN IF d.isFist
           THEN appState = TREE /\ focusId = NULL
           ELSE IF canPoint
           THEN /\ appState = INSPECT
                /\ \/ focusId \in PhotoIds(photos)
                   \/ last.appState = INSPECT /\ focusId = last.focusId
           ELSE IF d.isOpen
           THEN /\ appState = SCATTER
                /\ focusId = IF last.appState = INSPECT
                             THEN NULL ELSE last.focusId
           ELSE IF last.appState = SCATTER /\ d.isPinching /\ Len(photos) > 0
           THEN appState = INSPECT /\ focusId \in {last.focusId, PhotoId(0)}
           ELSE appState = last.appState /\ focusId = last.focusId

C2_Witness ==
    /\ Processed
    /\ ~gestureData.isFist /\ gestureData.isPointing /\ gestureData.isOpen
    /\ gestureData.isPinching
    /\ Len(photos) > 0
    /\ last.appState = SCATTER
    /\ appState = INSPECT /\ focusId \in PhotoIds(photos)

C4_CooldownMonotonic ==
    [][gestureCooldownRef' >= gestureCooldownRef]_vars

(* C5: a non-null focus implies mode = INSPECT; every exit from INSPECT    *)
(* clears the focus in the same step.                                      *)
C5_FocusImpliesInspect ==
    focusId # NULL => appState = INSPECT

C5_Witness ==
    /\ Processed
    /\ gestureData.isOpen
    /\ last.appState = INSPECT /\ last.focusId # NULL
    /\ appState = SCATTER /\ focusId = NULL

(* C6: after any handler, mode = INSPECT implies a non-null focus.         *)
C6_InspectHasFocus ==
    appState = INSPECT => focusId # NULL

(* C7: a processed signal with isFist = false and isPointing = true, with  *)
(* at least one photo, arriving when the mode is not INSPECT or when the   *)
(* signal of the previous tick had isPointing = false, leaves mode =       *)
(* INSPECT, the focus on one of the photos and no pending confirmation.    *)
C7_FreshPointSelects ==
    ( /\ Processed
      /\ ~gestureData.isFist /\ gestureData.isPointing
      /\ Len(photos) >= 1
      /\ (last.appState # INSPECT \/ ~last.deliveredPointing) )
        => /\ appState = INSPECT
           /\ focusId \in PhotoIds(photos)
           /\ ~deleteConfirm

(* C8: a pointing signal (isFist = false, photos present) that arrives in  *)
(* mode INSPECT right after a signal that also had isPointing = true       *)
(* leaves the mode INSPECT and the focus and the pending confirmation      *)
(* unchanged.                                                              *)
C8_NoRerandomization ==
    ( /\ last.op = "gesture"
      /\ delivered.isPointing
      /\ ~(Processed /\ gestureData.isFist)
      /\ Len(photos) >= 1
      /\ last.appState = INSPECT
      /\ last.deliveredPointing )
        => /\ appState = INSPECT
           /\ focusId = last.focusId
           /\ deleteConfirm = last.deleteConfirm

(* C9: after every signal delivered by the capture pipeline the stored     *)
(* previous-pointing flag equals that signal's isPointing.                 *)
C9_EdgeMemory ==
    last.op = "gesture" => wasPointingRef = delivered.isPointing

(* C10: a processed signal with isOpen = true and isFist = false to which  *)
(* rule 2 does not apply leaves mode = SCATTER; coming from INSPECT the    *)
(* focus is null and the confirmation cleared, otherwise the focus is      *)
(* unchanged.                                                              *)
C10_OpenScatters ==
    ( /\ Processed
      /\ gestureData.isOpen /\ ~gestureData.isFist
      /\ (~gestureData.isPointing \/ Len(photos) = 0) )
        => /\ appState = SCATTER
           /\ IF last.appState = INSPECT
              THEN focusId = NULL /\ ~deleteConfirm
              ELSE focusId = last.focusId

C10_Witness ==
    /\ Processed
    /\ gestureData.isOpen /\ ~gestureData.isFist /\ ~gestureData.isPointing
    /\ Len(photos) > 0
    /\ last.appState = INSPECT /\ last.focusId # NULL /\ last.deleteConfirm
    /\ appState = SCATTER /\ focusId = NULL /\ ~deleteConfirm

(* Only isPinching is set in the signal the app holds *)
PinchOnly(d) == d.isPinching /\ ~d.isFist /\ ~d.isPointing /\ ~d.isOpen

(* C11: a processed signal with only isPinching set, arriving in SCATTER   *)
(* with at least one photo, leaves mode = INSPECT; the focus becomes       *)
(* photo-0 if it was null and is kept if it was not null.                  *)
C11_PinchFallback ==
    (Processed /\ PinchOnly(gestureData) /\ last.appState = SCATTER
               /\ Len(photos) > 0)
        => /\ appState = INSPECT
           /\ focusId = IF last.focusId = NULL THEN PhotoId(0)
                                               ELSE last.focusId

(* C12: a processed signal to which no rule applies, that is a signal with *)
(* no flag set in any state, or a signal with only isPinching set while    *)
(* the mode is TREE or INSPECT, leaves mode, focus and pending delete      *)
(* confirmation as they were.                                              *)
C12_NoRuleNoChange ==
    (/\ Processed
     /\ ~gestureData.isFist /\ ~gestureData.isPointing /\ ~gestureData.isOpen
     /\ (gestureData.isPinching => last.appState \in {TREE, INSPECT}))
        => /\ appState = last.appState
           /\ focusId = last.focusId
           /\ deleteConfirm = last.deleteConfirm

C12_Witness ==
    /\ Processed
    /\ PinchOnly(gestureData)
    /\ Len(photos) > 0
    /\ last.appState = INSPECT /\ last.focusId # NULL /\ last.deleteConfirm
    /\ appState = INSPECT /\ focusId = last.focusId /\ deleteConfirm

(* C13: with no photo in the collection a processed signal never leaves    *)
(* mode = INSPECT or a non-null focus, whatever its isPointing and         *)
(* isPinching flags; a fist still gives TREE, an open hand without fist    *)
(* SCATTER, and any other signal leaves the mode as it was.                *)
C13_NoPhotosNoFocus ==
    (Processed /\ Len(photos) = 0)
        => /\ appState # INSPECT
           /\ focusId = NULL
           /\ appState = IF gestureData.isFist THEN TREE
                          ELSE IF gestureData.isOpen THEN SCATTER
                          ELSE last.appState

C13_Witness ==
    /\ Processed
    /\ Len(photos) = 0
    /\ gestureData.isPointing /\ gestureData.isPinching
    /\ ~gestureData.isFist /\ ~gestureData.isOpen
    /\ last.appState = SCATTER
    /\ appState = SCATTER /\ focusId = NULL

(* C14: a direct selection of the photo with id p leaves mode = INSPECT,   *)
(* focus = p and no pending delete confirmation in every state, whether    *)
(* the clock is before the cooldown deadline or not.                       *)
C14_SelectAlwaysFocuses ==
    last.op = "select"
        => /\ appState = INSPECT
           /\ focusId = last.arg
           /\ last.arg \in PhotoIds(photos)
           /\ ~deleteConfirm

C14_Witness ==
    /\ last.op = "select"
    /\ now < gestureCooldownRef
    /\ last.appState = SCATTER /\ last.focusId = NULL
    /\ appState = INSPECT /\ focusId = last.arg /\ focusId = PhotoId(1)

(* C15: after any call of handleGesture the signal the app holds, which is *)
(* the one handed to the scene and its camera, is the signal of that call  *)
(* (compared on isPointing and handPosition).                              *)
C15_HoldsLatestSignal ==
    last.op = "gesture" => Delivery(gestureData) = delivered

(* The id the scene gives the photo with the URL url in the collection ps *)
IdOfPhoto(ps, url) ==
    LET photoItems == PhotoItems(ps, [j \in 1 .. Len(ps) |-> 0])
    IN photoItems[CHOOSE j \in 1 .. Len(ps) : photoItems[j].textureUrl = url].id

Urls(ps) == {ps[j] : j \in 1 .. Len(ps)}

(* C16: after every upload and every confirmed delete, each photo that is  *)
(* in the collection before and after the change has the same id in the    *)
(* regenerated photo items as it had before.                               *)
C16_PhotoIdsStable ==
    last.op \in {"upload", "delete-confirm"}
        => \A url \in Urls(last.photos) \cap Urls(photos) :
               IdOfPhoto(photos, url) = IdOfPhoto(last.photos, url)

(* The non-photo items of a list of scene items *)
NonPhotoItems(all) == SelectSeq(all, LAMBDA it : it.type # "photo")

(* The non-photo parts of allItems over all draws of the photo jitter *)
NonPhotoParts == {NonPhotoItems(AllItems(jitter)) : jitter \in Jitters(photos)}

(* C17: a step that changes the photo collection leaves the non-photo      *)
(* items of allItems as they were: same ids, assembled and dispersed       *)
(* poses, kinds, colours and scales.                                       *)
C17_NonPhotoUntouched ==
    [][photos' # photos =>
          /\ NonPhotoParts = {items}
          /\ NonPhotoParts' = NonPhotoParts]_vars

C17_Witness ==
    /\ last.op = "delete-confirm"
    /\ Len(last.photos) = 2 /\ Len(photos) = 1
    /\ Len(items) = 1 /\ items[1].id = NonPhotoId("foil", 1)
    /\ NonPhotoParts = {items}

(* The ids of the scene items, whatever the photo jitter *)
ItemIds ==
    {items[k].id : k \in 1 .. Len(items)} \cup PhotoIds(photos)

(* The target of a photo that is not the focused one *)
UnfocusedPhotoTarget(item) ==
    IF appState = SCATTER THEN item.scatterPos
    ELSE IF appState = INSPECT
    THEN <<(item.scatterPos[1] * 12) \div 10, (item.scatterPos[2] * 12) \div 10,
           (item.scatterPos[3] * 12) \div 10 - 10000>>
    ELSE item.treePos

(* C18: when the focus id is the id of no scene item, the useFrame         *)
(* callback of every item has a target position, the target is never the  *)
(* presentation pose (0,0,15) and the target scale never the focused       *)
(* scale 2, and a photo gets the target and scale of an unfocused photo.   *)
C18_StaleFocusHarmless ==
    (frame # NoFrame /\ focusId \notin ItemIds)
        => /\ \A c \in 1 .. 3 : frame.targetPos[c] \in Int
           /\ frame.targetPos # <<0, 0, 15000>>
           /\ frame.targetScale # 2000
           /\ frame.item.type = "photo"
                  => /\ frame.targetPos = UnfocusedPhotoTarget(frame.item)
                     /\ frame.targetScale = 1000

C18_Witness ==
    /\ frame # NoFrame
    /\ appState = INSPECT
    /\ Len(photos) = 2 /\ focusId = PhotoId(2)
    /\ frame.item.id = PhotoId(1)
    /\ frame.targetPos = UnfocusedPhotoTarget(frame.item)
    /\ frame.targetScale = 1000

(* C19: for the landmarks of every frame the signal has not both isFist    *)
(* and isOpen, isPointing excludes isFist and isOpen, and when the tip of  *)
(* some finger is level with its PIP joint both isFist and isOpen are      *)
(* false.                                                                  *)
C19_ClassifierExclusive ==
    results.hand =>
        LET d == Classify(results)
        IN /\ gestureData = d
           /\ ~(d.isFist /\ d.isOpen)
           /\ d.isPointing => (~d.isFist /\ ~d.isOpen)
           /\ (\E tip \in FingerTips : results.lm[tip].y = results.lm[tip - 2].y)
                  => (~d.isFist /\ ~d.isOpen)

C19_Witness ==
    /\ results.hand
    /\ results.lm[8].y = results.lm[6].y
    /\ \A tip \in FingerTips \ {8} : results.lm[tip].y < results.lm[tip - 2].y
    /\ ~gestureData.isFist /\ ~gestureData.isOpen /\ gestureData.isPinching
    /\ last.op = "gesture"

(* C20: another run of the layout generator gives every non-photo item    *)
(* the assembled pose this run gave it.                                    *)
C20_LayoutDeterminism ==
    \A k \in 1 .. Len(items) :
        \A other \in Regenerated(items[k]) : other.treePos = items[k].treePos

(* C21: the dispersed pose of every non-photo item lies within the scatter *)
(* radii: |x| <= SCATTER_RADIUS_X, |y| <= SCATTER_RADIUS_Y and             *)
(* |z| <= SCATTER_RADIUS_Z, for every draw of Math.random().               *)
C21_ScatterWithinRadii ==
    \A k \in 1 .. Len(items) :
        LET pos == items[k].scatterPos
        IN /\ pos[1] >= 0 - SCATTER_RADIUS_X * 1000
           /\ pos[1] <= SCATTER_RADIUS_X * 1000
           /\ pos[2] >= 0 - SCATTER_RADIUS_Y * 1000
           /\ pos[2] <= SCATTER_RADIUS_Y * 1000
           /\ pos[3] >= 0 - SCATTER_RADIUS_Z * 1000
           /\ pos[3] <= SCATTER_RADIUS_Z * 1000

(* The distance of two positions, as the sum of the three coordinate       *)
(* distances                                                               *)
Abs(n) == IF n < 0 THEN 0 - n ELSE n

Distance(a, b) == Abs(a[1] - b[1]) + Abs(a[2] - b[2]) + Abs(a[3] - b[3])

SameSide(m, n) == (m >= 0 /\ n >= 0) \/ (m <= 0 /\ n <= 0)

(* C22: while the target of an item stays the same, a render tick with any *)
(* delta > 0 brings the live position strictly nearer to the target, never *)
(* onto it and never past it on any axis.                                  *)
C22_Convergence ==
    [][(mesh # NoMesh /\ mesh'.ticks # mesh.ticks)
          => LET target == TargetPos(mesh.item, appState, focusId)
             IN Distance(mesh.position, target) > 0
                  => /\ Distance(mesh'.position, target) > 0
                     /\ Distance(mesh'.position, target)
                            < Distance(mesh.position, target)
                     /\ \A c \in 1 .. 3 :
                            SameSide(mesh.position[c] - target[c],
                                     mesh'.position[c] - target[c])]_vars


(* The presentation pose of the focused photo *)
PresentationPose == <<0, 0, 15000>>

(* C23: in INSPECT mode the photo whose id is the focus id aims at the     *)
(* presentation pose (0,0,15) with scale 2, every other photo at its       *)
(* dispersed pose times 1.2 moved back 10 in z with scale 1, every         *)
(* non-photo item at its dispersed pose; the ids of the scene items are    *)
(* pairwise distinct and no two items aim at the presentation pose.        *)
C23_FocusedPresentation ==
    (frame # NoFrame /\ appState = INSPECT)
        => /\ (frame.item.type = "photo" /\ frame.item.id = focusId)
                  => /\ frame.targetPos = PresentationPose
                     /\ frame.targetScale = 2000
           /\ (frame.item.type = "photo" /\ frame.item.id # focusId)
                  => /\ frame.targetPos
                           = <<(frame.item.scatterPos[1] * 12) \div 10,
                               (frame.item.scatterPos[2] * 12) \div 10,
                               (frame.item.scatterPos[3] * 12) \div 10 - 10000>>
                     /\ frame.targetScale = 1000
           /\ frame.item.type # "photo"
                  => frame.targetPos = frame.item.scatterPos
           /\ \A jitter \in Jitters(photos) :
                 \A j, k \in 1 .. Len(AllItems(jitter)) :
                     j # k => /\ AllItems(jitter)[j].id # AllItems(jitter)[k].id
                              /\ ~ /\ TargetPos(AllItems(jitter)[j], appState, focusId)
                                        = PresentationPose
                                   /\ TargetPos(AllItems(jitter)[k], appState, focusId)
                                        = PresentationPose

C23_Witness ==
    /\ frame # NoFrame
    /\ appState = INSPECT
    /\ Len(photos) = 2 /\ focusId = PhotoId(1)
    /\ frame.item.id = PhotoId(1)
    /\ frame.targetPos = PresentationPose
    /\ frame.targetScale = 2000


(* C24: deletion takes two clicks.  The click that sets the confirmation   *)
(* changes neither the photos, the mode, the focus nor the cooldown.  The  *)
(* click made while the confirmation is pending, with focus photo-k,       *)
(* removes exactly the photo at index k, keeping the others in order,      *)
(* sets SCATTER, focus null, no confirmation and a cooldown of now + 2000. *)
(* No other step makes the photo list shorter.                             *)
C24_TwoStepDelete ==
    [][/\ (~deleteConfirm /\ deleteConfirm')
            => UNCHANGED <<photos, appState, focusId, gestureCooldownRef>>
       /\ (deleteConfirm /\ ~deleteConfirm' /\ last'.op = "delete-confirm")
            => /\ StartsWithPhoto(focusId)
               /\ ParseIndex(focusId) < Len(photos)
               /\ Len(photos') = Len(photos) - 1
               /\ \A j \in 1 .. Len(photos') :
                     photos'[j] = IF j <= ParseIndex(focusId)
                                  THEN photos[j] ELSE photos[j + 1]
               /\ appState' = SCATTER
               /\ focusId' = NULL
               /\ gestureCooldownRef' = now + DELETE_COOLDOWN_MS
       /\ Len(photos') < Len(photos)
            => (deleteConfirm /\ last'.op = "delete-confirm")]_vars

C24_Witness ==
    /\ last.op = "delete-confirm"
    /\ last.deleteConfirm
    /\ Len(last.photos) = 2
    /\ last.focusId = PhotoId(0)
    /\ photos = <<last.photos[2]>>
    /\ appState = SCATTER
    /\ focusId = NULL
    /\ ~deleteConfirm
    /\ gestureCooldownRef = now + DELETE_COOLDOWN_MS


(* The pending confirmation was set by the latest first click, whose timer *)
(* is the latest one.                                                      *)
LatestTimer == CHOOSE due \in timers : \A other \in timers : other <= due

(* C25: a pending confirmation is cleared only by the confirming click, a  *)
(* processed gesture, a direct selection, a close, or a timer; and a timer *)
(* never clears it earlier than CONFIRM_TIMEOUT_MS after the click that    *)
(* set it.                                                                 *)
C25_ConfirmLastsThreeSeconds ==
    [][(deleteConfirm /\ ~deleteConfirm')
          => \/ last'.op \in {"delete-confirm", "gesture", "select", "close"}
             \/ /\ timers' # timers
                /\ now >= LatestTimer]_vars


(* C26: the photo list never holds more than MAX_PHOTOS photos.  An upload *)
(* into a full list adds nothing; an upload of more files than there is    *)
(* room for appends the URLs of the first MAX_PHOTOS - length files, in    *)
(* order, after the photos that were there.                                *)
C26_GalleryLimit ==
    /\ Len(photos) <= MAX_PHOTOS
    /\ last.op = "upload"
          => LET before == last.photos
                 room == MAX_PHOTOS - Len(before)
                 taken == IF last.arg.index > room THEN room
                                                   ELSE last.arg.index
             IN /\ Len(before) = MAX_PHOTOS => photos = before
                /\ Len(photos) = Len(before) + taken
                /\ \A j \in 1 .. Len(before) : photos[j] = before[j]
                /\ \A j \in 1 .. taken :
                      photos[Len(before) + j] = nextUrl - taken + j

C26_Witness ==
    /\ last.op = "upload"
    /\ Len(last.photos) = MAX_PHOTOS - 1
    /\ last.arg = FileCount(2)
    /\ Len(photos) = MAX_PHOTOS
    /\ photos[MAX_PHOTOS] = nextUrl


(* C27: a focus id that is not null is the id of a photo in the list:      *)
(* photo-k with 0 <= k < Len(photos).                                      *)
C27_FocusResolves ==
    focusId # NULL
        => /\ StartsWithPhoto(focusId)
           /\ ParseIndex(focusId) >= 0
           /\ ParseIndex(focusId) < Len(photos)


C27_Witness ==
    /\ last.op = "gesture"
    /\ last.focusId = NULL
    /\ appState = INSPECT
    /\ Len(photos) = 2
    /\ focusId = PhotoId(1)


(* C28: while a confirmation is pending the mode is INSPECT and the focus  *)
(* is not null; the focus id does not change from one step to the next     *)
(* while the confirmation stays pending, so the confirming click removes   *)
(* the photo that was focused when the confirmation was set: the photo at  *)
(* the focused index stays the same one.                                   *)
C28_ConfirmKeepsFocus ==
    [][/\ deleteConfirm' => (appState' = INSPECT /\ focusId' # NULL)
       /\ (deleteConfirm /\ deleteConfirm')
            => /\ focusId' = focusId
               /\ ParseIndex(focusId) < Len(photos)
               /\ ParseIndex(focusId) < Len(photos')
               /\ photos'[ParseIndex(focusId) + 1]
                     = photos[ParseIndex(focusId) + 1]]_vars

C28_Witness ==
    /\ last.op = "delete-confirm"
    /\ last.deleteConfirm
    /\ last.appState = INSPECT
    /\ Len(last.photos) = 2
    /\ last.focusId = PhotoId(1)
    /\ photos = <<last.photos[1]>>
    /\ now > 0


(* The outcomes of the updater had the effects of App.tsx:82-89 run before *)
(* the signal: photosRef holds photos and focusIdRef holds focusId.        *)
RefreshedUpdater(prev, data, isFreshPoint) ==
    IF data.isFist
    THEN FistRule
    ELSE IF data.isPointing /\ Len(photos) > 0
    THEN IF prev # INSPECT \/ isFreshPoint
         THEN {Outcome(INSPECT, PhotoId(randomIdx), FALSE) :
                  randomIdx \in 0 .. (Len(photos) - 1)}
         ELSE {Outcome(INSPECT, focusId, deleteConfirm)}
    ELSE IF data.isOpen
    THEN OpenRule(prev)
    ELSE IF prev = SCATTER /\ data.isPinching /\ Len(photos) > 0
    THEN IF focusId = NULL
         THEN {Outcome(INSPECT, PhotoId(0), FALSE)}
         ELSE {Outcome(INSPECT, focusId, deleteConfirm)}
    ELSE {Outcome(prev, focusId, deleteConfirm)}

(* C29: whenever the ref effects run relative to the gesture signals, a    *)
(* processed signal leaves the mode and focus that the updater gives with  *)
(* refreshed refs; a pinch right after an open hand gives photo-0.         *)
C29_RefreshOrderIrrelevant ==
    [][(last'.op = "gesture" /\ ~CooldownActive(now))
          => \E out \in RefreshedUpdater(appState, gestureData',
                          gestureData'.isPointing /\ ~wasPointingRef) :
                /\ appState' = out.appState
                /\ focusId' = out.focusId]_vars


(* C30: gesture control comes back.  A close click leaves a deadline at    *)
(* most CLOSE_COOLDOWN_MS ahead of the clock, a confirmed delete at most   *)
(* DELETE_COOLDOWN_MS; no other step moves the deadline and the clock      *)
(* never goes back, so a signal delivered 2000 ms or more after the last   *)
(* such click is not before the deadline.  Every signal that is not before *)
(* the deadline is processed: it becomes the signal the app holds, and a   *)
(* fist leaves TREE with focus null.                                       *)
C30_ControlComesBack ==
    [][/\ last'.op = "close"
            => gestureCooldownRef' <= now + CLOSE_COOLDOWN_MS
       /\ last'.op = "delete-confirm"
            => gestureCooldownRef' <= now + DELETE_COOLDOWN_MS
       /\ gestureCooldownRef' # gestureCooldownRef
            => last'.op \in {"close", "delete-confirm"}
       /\ now' >= now
       /\ (last'.op = "gesture" /\ now >= gestureCooldownRef)
            => /\ gestureData'.isPointing = delivered'.isPointing
               /\ gestureData'.handPosition = delivered'.handPosition
               /\ wasPointingRef' = delivered'.isPointing
               /\ gestureData'.isFist
                     => (appState' = TREE /\ focusId' = NULL)]_vars

C30_Witness ==
    /\ Processed
    /\ gestureCooldownRef = DeleteDeadline(0)
    /\ Len(photos) < nextUrl
    /\ gestureData.isFist
    /\ last.appState = SCATTER
    /\ appState = TREE /\ focusId = NULL

============================================================================
